---- MODULE Spec2Model ----
(***************************************************************************)
(* Model of the FRITZ!Box device scanner:                                  *)
(*   homeassistant/components/fritz/common.py   FritzBoxTools,             *)
(*                                               FritzScannerEntity        *)
(*   homeassistant/components/fritz/const.py    TRACKER_SCAN_INTERVAL      *)
(*   homeassistant/components/fritz/device_tracker.py  async_setup_entry,  *)
(*                                               add_entities              *)
(*                                                                         *)
(* Python values are encoded as follows.                                   *)
(*   None          the 1-tuple <<"None">>                                  *)
(*   str           the sequence of its characters ("" is <<>>)             *)
(*   datetime      the pair <<"utc", n>>, n the clock reading              *)
(*   bool          BOOLEAN                                                 *)
(* so that None differs from every string and from every datetime.         *)
(***************************************************************************)
EXTENDS Integers, Sequences, FiniteSets, TLC

VARIABLES
    phase,          \* position of FritzBoxTools.__init__: "new", "constructing", "ready", "raised"
    success,        \* self.success
    error,          \* self.error
    devices,        \* self._devices: function MAC -> FritzScannerEntity fields
    scan_pc,        \* position of the running scan_devices call
    scan_now,       \* scan_devices' argument `now`
    count,          \* length of the list _update_info() returned to this scan
    index,          \* how many of its entries the for loop has taken
    known_host,     \* the for loop's variable
    new_device,     \* scan_devices' local new_device
    clock,          \* the wall clock dt_util.utcnow() reads
    next_fire,      \* the next time the interval timer is due
    ticks,          \* timer ticks that started a scan so far (bounded by MaxTicks)
    skipped,        \* a timer tick came due during a scan and was skipped
    dispatched,     \* history: signals sent by the current scan, in order
    seen_macs,      \* history: non-empty MACs the current scan's list has yielded
    devices_before, \* history: self._devices when the current scan was entered
    dup_macs,       \* history: MACs the current scan's list has yielded more than once
    subscribed,     \* the dispatcher's connections: [router, topic, handler]
    setup_pc,       \* position of async_setup_entry: "none", "iter", "done", "raised"
    iter_size,      \* len(router.devices) when the for loop of add_entities began
    iter_seen,      \* the MACs that loop has yielded
    tracked,        \* async_setup_entry's set `tracked`
    new_tracked,    \* add_entities' list new_tracked (the MACs of its entities)
    entities,       \* MAC -> number of FritzBoxTracker entities given to async_add_entities
    notified        \* history: connections of another router that a signal of this one invoked

\* The state of the device tracker platform.
tvars == <<subscribed, setup_pc, iter_size, iter_seen, tracked, new_tracked,
           entities, notified>>

vars == <<phase, success, error, devices, scan_pc, scan_now, count, index,
          known_host, new_device, clock, next_fire, ticks, dispatched,
          seen_macs, devices_before, dup_macs, skipped, tvars>>

----------------------------------------------------------------------------
(* Bounds of the model. *)

MaxHosts == 2

MaxTicks == 1

FetchTime == 1

(* const.py *)
TRACKER_SCAN_INTERVAL == 30

DOMAIN_NAME == "fritz"

ERROR_CONNECTION_ERROR == "connection_error"

----------------------------------------------------------------------------
(* Python values. *)

None == <<"None">>

Utc(n) == <<"utc", n>>

\* Python truthiness of an Optional[str]: None and "" are falsy.
truthy(v) == v # None /\ v # <<>>

\* str.replace(old, new) for one-character old and new.
replace(s, old, new) == [i \in DOMAIN s |-> IF s[i] = old THEN new ELSE s[i]]

MacA == <<"a", ":", "b">>

MacB == <<"c", ":", "d">>

Macs == {MacA, MacB}

NameA == <<"p">>

NameB == <<"q">>

IpA == <<"1">>

\* What fritzhosts.get_hosts_info() can put in one host dictionary.  An entry
\* whose "mac" is falsy is left by `continue` before its other keys are read,
\* so one such entry per falsy MAC stands for all of them.
HostEntries ==
    [mac : Macs, ip : {IpA, None}, name : {NameA, NameB, None, <<>>},
     status : BOOLEAN]
    \cup [mac : {None, <<>>}, ip : {IpA}, name : {NameA}, status : {TRUE}]

NoHost == [mac |-> None, ip |-> None, name |-> None, status |-> FALSE]

\* The values self.error takes in __init__ (False when the connection succeeded).
Errors == {ERROR_CONNECTION_ERROR, "connection_error_profiles", "profile_not_found"}

----------------------------------------------------------------------------
(* FritzBoxTools properties. *)

signal_device_new == DOMAIN_NAME \o "-device-new"

signal_device_update == DOMAIN_NAME \o "-device-update"

----------------------------------------------------------------------------
(* FritzScannerEntity. *)

\* Device = namedtuple("Device", ["mac", "ip", "name"])
Device(mac, ip, name) == [mac |-> mac, ip |-> ip, name |-> name]

\* Mutant: the entity stores the normalised MAC instead of the MAC it was given.
FritzScannerEntity_normalised(mac) ==
    [mac |-> replace(mac, ":", "_"), name |-> None, ip_address |-> None,
     last_activity |-> None, connected |-> FALSE, icon |-> None]

\* FritzScannerEntity.__init__(mac, name=None); _icon is not set until update.
FritzScannerEntity(mac) ==
    [mac |-> mac, name |-> None, ip_address |-> None, last_activity |-> None,
     connected |-> FALSE, icon |-> None]

\* Mutant: the offline branch does not clear the IP address.
update_keeps_ip(self, dev_info, dev_home, utc) ==
    LET named == IF ~truthy(self.name)
                 THEN [self EXCEPT !.name = IF truthy(dev_info.name)
                                            THEN dev_info.name
                                            ELSE replace(self.mac, ":", "_")]
                 ELSE self
        conn == [named EXCEPT !.connected = dev_home]
    IN  IF ~conn.connected
        THEN [conn EXCEPT !.icon = "mdi:lan-disconnect"]
        ELSE [conn EXCEPT !.last_activity = utc, !.ip_address = dev_info.ip,
                          !.icon = "mdi:lan-connect"]

\* Mutant: a reported non-empty name always replaces the stored name.
update_overwrites_name(self, dev_info, dev_home, utc) ==
    LET named == IF truthy(dev_info.name)
                 THEN [self EXCEPT !.name = dev_info.name]
                 ELSE IF ~truthy(self.name)
                      THEN [self EXCEPT !.name = replace(self.mac, ":", "_")]
                      ELSE self
        conn == [named EXCEPT !.connected = dev_home]
    IN  IF ~conn.connected
        THEN [conn EXCEPT !.ip_address = None, !.icon = "mdi:lan-disconnect"]
        ELSE [conn EXCEPT !.last_activity = utc, !.ip_address = dev_info.ip,
                          !.icon = "mdi:lan-connect"]

\* Mutant: the last-activity timestamp is set only the first time the device
\* is seen online.
update_first_activity_only(self, dev_info, dev_home, utc) ==
    LET named == IF ~truthy(self.name)
                 THEN [self EXCEPT !.name = IF truthy(dev_info.name)
                                            THEN dev_info.name
                                            ELSE replace(self.mac, ":", "_")]
                 ELSE self
        conn == [named EXCEPT !.connected = dev_home]
    IN  IF ~conn.connected
        THEN [conn EXCEPT !.ip_address = None, !.icon = "mdi:lan-disconnect"]
        ELSE [conn EXCEPT !.last_activity = IF @ = None THEN utc ELSE @,
                          !.ip_address = dev_info.ip,
                          !.icon = "mdi:lan-connect"]

\* Mutant: the last-activity timestamp is set on every update, offline too.
update_touch_always(self, dev_info, dev_home, utc) ==
    LET named == IF ~truthy(self.name)
                 THEN [self EXCEPT !.name = IF truthy(dev_info.name)
                                            THEN dev_info.name
                                            ELSE replace(self.mac, ":", "_")]
                 ELSE self
        conn == [named EXCEPT !.connected = dev_home, !.last_activity = utc]
    IN  IF ~conn.connected
        THEN [conn EXCEPT !.ip_address = None, !.icon = "mdi:lan-disconnect"]
        ELSE [conn EXCEPT !.ip_address = dev_info.ip, !.icon = "mdi:lan-connect"]

\* Mutant: the branch on the connectivity flag is taken before the flag is
\* assigned, so it tests the flag of the previous observation.
update_stale_branch(self, dev_info, dev_home, utc) ==
    LET named == IF ~truthy(self.name)
                 THEN [self EXCEPT !.name = IF truthy(dev_info.name)
                                            THEN dev_info.name
                                            ELSE replace(self.mac, ":", "_")]
                 ELSE self
        conn == [named EXCEPT !.connected = dev_home]
    IN  IF ~self.connected
        THEN [conn EXCEPT !.ip_address = None, !.icon = "mdi:lan-disconnect"]
        ELSE [conn EXCEPT !.last_activity = utc, !.ip_address = dev_info.ip,
                          !.icon = "mdi:lan-connect"]

\* Mutant: an unnamed record takes a reported name but no placeholder.
update_no_placeholder(self, dev_info, dev_home, utc) ==
    LET named == IF ~truthy(self.name) /\ truthy(dev_info.name)
                 THEN [self EXCEPT !.name = dev_info.name]
                 ELSE self
        conn == [named EXCEPT !.connected = dev_home]
    IN  IF ~conn.connected
        THEN [conn EXCEPT !.ip_address = None, !.icon = "mdi:lan-disconnect"]
        ELSE [conn EXCEPT !.last_activity = utc, !.ip_address = dev_info.ip,
                          !.icon = "mdi:lan-connect"]

\* FritzScannerEntity.update(dev_info, dev_home); utc is what dt_util.utcnow() returned.
update(self, dev_info, dev_home, utc) ==
    LET named == IF ~truthy(self.name)
                 THEN [self EXCEPT !.name = IF truthy(dev_info.name)
                                            THEN dev_info.name
                                            ELSE replace(self.mac, ":", "_")]
                 ELSE self
        conn == [named EXCEPT !.connected = dev_home]
    IN  IF ~conn.connected
        THEN [conn EXCEPT !.ip_address = None, !.icon = "mdi:lan-disconnect"]
        ELSE [conn EXCEPT !.last_activity = utc, !.ip_address = dev_info.ip,
                          !.icon = "mdi:lan-connect"]

----------------------------------------------------------------------------
(* FritzBoxTools.scan_devices, one loop iteration. *)

\* Mutant: the hosts list is fetched whether or not the connection succeeded.
update_info_ignores_failure(ok, hosts) == hosts

\* _update_info(): None when the connection failed, else the hosts list.
update_info(ok, hosts) == IF ~ok THEN None ELSE hosts

\* Mutant: every entry with a MAC sets new_device, known or not.
fold_new_always(devs, host, utc) ==
    IF ~truthy(host.mac)
    THEN [devices |-> devs, new |-> FALSE]
    ELSE LET dev_info == Device(host.mac, host.ip, host.name)
         IN  IF host.mac \in DOMAIN devs
             THEN [devices |-> [devs EXCEPT ![host.mac] =
                                    update(@, dev_info, host.status, utc)],
                   new |-> TRUE]
             ELSE [devices |-> (host.mac :> update(FritzScannerEntity(host.mac),
                                                   dev_info, host.status, utc))
                               @@ devs,
                   new |-> TRUE]

\* Mutant: a known device reported offline is removed from the registry.
fold_evicts_offline(devs, host, utc) ==
    IF ~truthy(host.mac)
    THEN [devices |-> devs, new |-> FALSE]
    ELSE LET dev_info == Device(host.mac, host.ip, host.name)
         IN  IF host.mac \in DOMAIN devs
             THEN [devices |-> IF host.status
                               THEN [devs EXCEPT ![host.mac] =
                                         update(@, dev_info, host.status, utc)]
                               ELSE [m \in DOMAIN devs \ {host.mac} |-> devs[m]],
                   new |-> FALSE]
             ELSE [devices |-> (host.mac :> update(FritzScannerEntity(host.mac),
                                                   dev_info, host.status, utc))
                               @@ devs,
                   new |-> TRUE]

\* Mutant: the entry's MAC is not tested, an entry without MAC is folded too.
fold_no_skip(devs, host, utc) ==
    LET dev_info == Device(host.mac, host.ip, host.name)
    IN  IF host.mac \in DOMAIN devs
        THEN [devices |-> [devs EXCEPT ![host.mac] =
                               update(@, dev_info, host.status, utc)],
              new |-> FALSE]
        ELSE [devices |-> (host.mac :> update(FritzScannerEntity(host.mac),
                                              dev_info, host.status, utc))
                          @@ devs,
              new |-> TRUE]

\* Mutant: folding an entry marks every other record as disconnected.
fold_resets_others(devs, host, utc) ==
    IF ~truthy(host.mac)
    THEN [devices |-> devs, new |-> FALSE]
    ELSE LET dev_info == Device(host.mac, host.ip, host.name)
             others == [m \in DOMAIN devs |->
                           IF m = host.mac THEN devs[m]
                           ELSE [devs[m] EXCEPT !.connected = FALSE,
                                                !.ip_address = None]]
         IN  IF host.mac \in DOMAIN devs
             THEN [devices |-> [others EXCEPT ![host.mac] =
                                    update(@, dev_info, host.status, utc)],
                   new |-> FALSE]
             ELSE [devices |-> (host.mac :> update(FritzScannerEntity(host.mac),
                                                   dev_info, host.status, utc))
                               @@ others,
                   new |-> TRUE]

\* Mutant: a MAC already in the registry is left as it is (the first entry wins).
fold_skips_known(devs, host, utc) ==
    IF ~truthy(host.mac) \/ host.mac \in DOMAIN devs
    THEN [devices |-> devs, new |-> FALSE]
    ELSE [devices |-> (host.mac :> update(FritzScannerEntity(host.mac),
                                          Device(host.mac, host.ip, host.name),
                                          host.status, utc))
                      @@ devs,
          new |-> TRUE]

\* The body of the for loop for one known_host: the new registry and whether
\* the entry set new_device.
fold(devs, host, utc) ==
    IF ~truthy(host.mac)
    THEN [devices |-> devs, new |-> FALSE]
    ELSE LET dev_info == Device(host.mac, host.ip, host.name)
         IN  IF host.mac \in DOMAIN devs
             THEN [devices |-> [devs EXCEPT ![host.mac] =
                                    update(@, dev_info, host.status, utc)],
                   new |-> FALSE]
             ELSE [devices |-> (host.mac :> update(FritzScannerEntity(host.mac),
                                                   dev_info, host.status, utc))
                               @@ devs,
                   new |-> TRUE]

----------------------------------------------------------------------------
(* The state machine. *)

\* The list get_hosts_info() returns, as far as the for loop has not yet
\* taken its entries: its length.  The entries are drawn from HostEntries
\* when the loop takes them, in list order.
HostsList(n) == <<"list", n>>

\* This router and another FritzBoxTools instance of the same installation.
Routers == {"this", "other"}

\* async_dispatcher_connect(hass, topic, handler), made for a router's entry.
Connections ==
    [router : Routers,
     topic : {signal_device_new, signal_device_update},
     handler : {"update_router", "async_on_demand_update"}]

\* FritzBoxTools.devices: the property returns self._devices itself.
router_devices == devices

\* add_entities with nothing else running: every MAC of router.devices that
\* is not tracked becomes tracked and gets one entity.
add_entities(trk, ents) ==
    [tracked |-> trk \cup DOMAIN router_devices,
     entities |-> [m \in Macs |->
                      IF m \in DOMAIN router_devices \ trk
                      THEN ents[m] + 1 ELSE ents[m]]]

\* async_dispatcher_send(hass, topic): every handler connected to the topic
\* is invoked before the scan goes on.  update_router of this router runs
\* add_entities; the handlers of the other router are recorded.
Dispatch(topic) ==
    LET invoked == {c \in subscribed : c.topic = topic}
        r == add_entities(tracked, entities)
    IN  /\ notified' = notified \cup {c \in invoked : c.router = "other"}
        /\ IF \E c \in invoked : c.router = "this" /\ c.handler = "update_router"
           THEN /\ tracked' = r.tracked
                /\ entities' = r.entities
           ELSE UNCHANGED <<tracked, entities>>
        /\ UNCHANGED <<subscribed, setup_pc, iter_size, iter_seen, new_tracked>>

TypeOK ==
    /\ phase \in {"new", "constructing", "ready", "raised"}
    /\ success \in BOOLEAN
    /\ error \in Errors \cup {"False"}
    /\ DOMAIN devices \subseteq Macs
    /\ scan_pc \in {"none", "fetch", "loop", "body", "send_update", "send_new",
                    "done", "raised"}
    /\ count \in 0..MaxHosts
    /\ index \in 0..count
    /\ known_host \in HostEntries \cup {NoHost}
    /\ new_device \in BOOLEAN
    /\ clock \in Nat
    /\ ticks \in 0..MaxTicks
    /\ skipped \in BOOLEAN
    /\ seen_macs \subseteq Macs
    /\ dup_macs \subseteq seen_macs
    /\ subscribed \subseteq Connections
    /\ setup_pc \in {"none", "iter", "done", "raised"}
    /\ iter_size \in 0..Cardinality(Macs)
    /\ iter_seen \subseteq Macs
    /\ tracked \subseteq Macs
    /\ new_tracked \subseteq tracked
    /\ entities \in [Macs -> Nat]
    /\ notified \subseteq subscribed

\* Before FritzBoxTools(...) is called.
Init ==
    /\ phase = "new"
    /\ success = FALSE
    /\ error = "False"
    /\ devices = <<>>
    /\ scan_pc = "none"
    /\ scan_now = None
    /\ count = 0
    /\ index = 0
    /\ known_host = NoHost
    /\ new_device = FALSE
    /\ clock = 0
    /\ next_fire = 0
    /\ ticks = 0
    /\ skipped = FALSE
    /\ dispatched = <<>>
    /\ seen_macs = {}
    /\ devices_before = <<>>
    /\ dup_macs = {}
    /\ subscribed = {}
    /\ setup_pc = "none"
    /\ iter_size = 0
    /\ iter_seen = {}
    /\ tracked = {}
    /\ new_tracked = {}
    /\ entities = [m \in Macs |-> 0]
    /\ notified = {}

\* Entry of scan_devices(now): new_device = False, then _update_info() is called.
EnterScan(now) ==
    /\ scan_pc' = "fetch"
    /\ scan_now' = now
    /\ new_device' = FALSE
    /\ count' = 0
    /\ index' = 0
    /\ known_host' = NoHost
    /\ dispatched' = <<>>
    /\ seen_macs' = {}
    /\ devices_before' = devices
    /\ dup_macs' = {}

\* __init__ up to its call of self.scan_devices(): the connection attempt
\* succeeds, or one of the three caught exceptions records the failure.
Construct ==
    /\ phase = "new"
    /\ \E ok \in BOOLEAN :
         /\ success' = ok
         /\ \E e \in Errors : error' = IF ok THEN "False" ELSE e
    /\ devices' = <<>>
    /\ phase' = "constructing"
    /\ EnterScan(None)
    /\ UNCHANGED <<clock, next_fire, ticks, skipped>>
    /\ UNCHANGED tvars

\* for known_host in self._update_info(): the call and the start of the
\* iteration.  Iterating None raises TypeError, which leaves scan_devices
\* and, in the initial scan, __init__.
Fetch ==
    /\ scan_pc = "fetch"
    /\ \E n \in 0..MaxHosts :
         LET hosts == update_info(success, HostsList(n))
         IN  IF hosts = None
             THEN /\ scan_pc' = "raised"
                  /\ phase' = IF phase = "constructing" THEN "raised" ELSE phase
                  /\ UNCHANGED <<count, clock>>
             ELSE /\ scan_pc' = "loop"
                  /\ count' = hosts[2]
                  /\ clock' = clock + FetchTime
                  /\ UNCHANGED phase
    /\ UNCHANGED <<success, error, devices, scan_now, index, known_host,
                   new_device, next_fire, ticks, dispatched, seen_macs,
                   devices_before,
                   dup_macs, skipped>>
    /\ UNCHANGED tvars

\* The for loop takes the next entry of the list.
LoopNext ==
    /\ scan_pc = "loop"
    /\ index < count
    /\ \E h \in HostEntries :
         /\ known_host' = h
         /\ seen_macs' = IF truthy(h.mac) THEN seen_macs \cup {h.mac} ELSE seen_macs
         /\ dup_macs' = IF h.mac \in seen_macs THEN dup_macs \cup {h.mac} ELSE dup_macs
    /\ index' = index + 1
    /\ scan_pc' = "body"
    /\ UNCHANGED <<phase, success, error, devices, scan_now, count, new_device,
                   clock, next_fire, ticks, dispatched, devices_before, skipped>>
    /\ UNCHANGED tvars

\* The loop body for known_host.
LoopBody ==
    /\ scan_pc = "body"
    /\ LET r == fold(devices, known_host, Utc(clock))
       IN  /\ devices' = r.devices
           /\ new_device' = (new_device \/ r.new)
    /\ scan_pc' = "loop"
    /\ UNCHANGED <<phase, success, error, scan_now, count, index, known_host,
                   clock, next_fire, ticks, dispatched, seen_macs, devices_before,
                   dup_macs, skipped>>
    /\ UNCHANGED tvars

\* The list is exhausted.  Nothing reads known_host after the loop, so it is
\* reset here.
LoopExit ==
    /\ scan_pc = "loop"
    /\ index = count
    /\ known_host' = NoHost
    /\ scan_pc' = "send_update"
    /\ UNCHANGED <<phase, success, error, devices, scan_now, count, index,
                   new_device, clock, next_fire, ticks, dispatched, seen_macs,
                   devices_before,
                   dup_macs, skipped>>
    /\ UNCHANGED tvars

\* Mutant: device-new is sent first, device-update after it.
SendUpdate_new_first ==
    /\ scan_pc = "send_update"
    /\ dispatched' = IF new_device
                     THEN dispatched \o <<signal_device_new, signal_device_update>>
                     ELSE Append(dispatched, signal_device_update)
    /\ scan_pc' = "done"
    /\ UNCHANGED <<phase, success, error, devices, scan_now, count, index,
                   known_host, new_device, clock, next_fire, ticks, seen_macs,
                   devices_before,
                   dup_macs, skipped>>
    /\ UNCHANGED tvars

\* async_dispatcher_send(self.hass, self.signal_device_update); if new_device: ...
SendUpdate ==
    /\ scan_pc = "send_update"
    /\ dispatched' = Append(dispatched, signal_device_update)
    /\ scan_pc' = IF new_device THEN "send_new" ELSE "done"
    /\ UNCHANGED <<phase, success, error, devices, scan_now, count, index,
                   known_host, new_device, clock, next_fire, ticks, seen_macs,
                   devices_before,
                   dup_macs, skipped>>
    /\ Dispatch(signal_device_update)

\* async_dispatcher_send(self.hass, self.signal_device_new)
SendNew ==
    /\ scan_pc = "send_new"
    /\ dispatched' = Append(dispatched, signal_device_new)
    /\ scan_pc' = "done"
    /\ UNCHANGED <<phase, success, error, devices, scan_now, count, index,
                   known_host, new_device, clock, next_fire, ticks, seen_macs,
                   devices_before,
                   dup_macs, skipped>>
    /\ Dispatch(signal_device_new)

\* Mutant: the timer is registered before the initial scan has run.
RegisterTimer_early ==
    /\ phase = "constructing"
    /\ scan_pc = "fetch"
    /\ phase' = "ready"
    /\ next_fire' = clock + TRACKER_SCAN_INTERVAL
    /\ UNCHANGED <<success, error, devices, scan_pc, scan_now, count, index,
                   known_host, new_device, clock, ticks, dispatched, seen_macs,
                   devices_before, dup_macs, skipped>>
    /\ UNCHANGED tvars

\* __init__ after the initial scan returned: async_track_time_interval(...).
RegisterTimer ==
    /\ phase = "constructing"
    /\ scan_pc = "done"
    /\ phase' = "ready"
    /\ next_fire' = clock + TRACKER_SCAN_INTERVAL
    /\ UNCHANGED <<success, error, devices, scan_pc, scan_now, count, index,
                   known_host, new_device, clock, ticks, dispatched, seen_macs,
                   devices_before,
                   dup_macs, skipped>>
    /\ UNCHANGED tvars

\* Mutant: the scheduler starts a scan at every tick.
NoScanInFlight_always == TRUE

\* The scheduler starts a timer-driven scan only when none is in flight.
NoScanInFlight == scan_pc \in {"none", "done", "raised"}

\* The interval timer fires and calls scan_devices(now).
TimerTick ==
    /\ phase = "ready"
    /\ NoScanInFlight
    /\ ticks < MaxTicks
    /\ ticks' = ticks + 1
    /\ clock' = IF clock < next_fire THEN next_fire ELSE clock
    /\ next_fire' = next_fire + TRACKER_SCAN_INTERVAL
    /\ EnterScan(Utc(clock'))
    /\ UNCHANGED <<phase, success, error, devices, skipped>>
    /\ UNCHANGED tvars

\* The interval elapses while scan_devices waits for get_hosts_info(): the
\* scheduler starts a scan only when none is in flight, so the tick is
\* skipped and the running scan goes on.
SkipTick ==
    /\ phase = "ready"
    /\ scan_pc = "fetch"
    /\ ~skipped
    /\ clock' = IF clock < next_fire THEN next_fire ELSE clock
    /\ next_fire' = next_fire + TRACKER_SCAN_INTERVAL
    /\ UNCHANGED tvars
    /\ IF NoScanInFlight
       THEN /\ ticks' = ticks + 1
            /\ EnterScan(Utc(clock'))
            /\ UNCHANGED <<phase, success, error, devices, skipped>>
       ELSE /\ skipped' = TRUE
            /\ UNCHANGED <<phase, success, error, devices, scan_pc, scan_now,
                           count, index, known_host, new_device, ticks,
                           dispatched, seen_macs, devices_before, dup_macs>>

Next ==
    \/ Construct
    \/ Fetch
    \/ LoopNext
    \/ LoopBody
    \/ LoopExit
    \/ SendUpdate
    \/ SendNew
    \/ RegisterTimer
    \/ TimerTick
    \/ SkipTick

Spec == Init /\ [][Next]_vars

----------------------------------------------------------------------------
(* The device tracker platform, device_tracker.py.  Its callbacks run in   *)
(* the event loop while scan_devices runs on the scheduler's behalf, so    *)
(* the steps of the two interleave.                                        *)

\* The state of FritzBoxTools and of its running scan.
evars == <<phase, success, error, devices, scan_pc, scan_now, count, index,
           known_host, new_device, clock, next_fire, ticks, dispatched,
           seen_macs, devices_before, dup_macs, skipped>>

\* async_setup_entry of another router's entry and async_added_to_hass of
\* its entities: their handlers are connected to that router's topics.
SetupOther ==
    /\ [router |-> "other", topic |-> signal_device_new,
         handler |-> "update_router"] \notin subscribed
    /\ subscribed' = subscribed \cup
           {[router |-> "other", topic |-> signal_device_new,
             handler |-> "update_router"],
            [router |-> "other", topic |-> signal_device_update,
             handler |-> "async_on_demand_update"]}
    /\ UNCHANGED <<setup_pc, iter_size, iter_seen, tracked, new_tracked,
                   entities, notified>>
    /\ UNCHANGED evars

\* async_setup_entry of this router's entry: tracked = set(), update_router
\* is connected to router.signal_device_new, then update_router() is called:
\* add_entities sets new_tracked = [] and begins to iterate router.devices.
SetupEntry ==
    /\ phase = "ready"
    /\ setup_pc = "none"
    /\ subscribed' = subscribed \cup
           {[router |-> "this", topic |-> signal_device_new,
             handler |-> "update_router"]}
    /\ tracked' = {}
    /\ new_tracked' = {}
    /\ iter_size' = Cardinality(DOMAIN router_devices)
    /\ iter_seen' = {}
    /\ setup_pc' = "iter"
    /\ UNCHANGED <<entities, notified>>
    /\ UNCHANGED evars

\* for mac, device in router.devices.items(): the dictionary still has the
\* size it had when the loop began and yields its next key; the body runs.
ReaderNext ==
    /\ setup_pc = "iter"
    /\ Cardinality(DOMAIN router_devices) = iter_size
    /\ \E mac \in DOMAIN router_devices \ iter_seen :
         /\ iter_seen' = iter_seen \cup {mac}
         /\ IF mac \in tracked
            THEN UNCHANGED <<tracked, new_tracked>>
            ELSE /\ new_tracked' = new_tracked \cup {mac}
                 /\ tracked' = tracked \cup {mac}
    /\ UNCHANGED <<subscribed, setup_pc, iter_size, entities, notified>>
    /\ UNCHANGED evars

\* The dictionary's size differs from the size it had when the loop began:
\* the iterator raises RuntimeError, which leaves add_entities and
\* async_setup_entry.
ReaderRaise ==
    /\ setup_pc = "iter"
    /\ Cardinality(DOMAIN router_devices) # iter_size
    /\ setup_pc' = "raised"
    /\ new_tracked' = {}
    /\ UNCHANGED <<subscribed, iter_size, iter_seen, tracked, entities, notified>>
    /\ UNCHANGED evars

\* The loop is exhausted: if new_tracked: async_add_entities(new_tracked).
ReaderEnd ==
    /\ setup_pc = "iter"
    /\ Cardinality(DOMAIN router_devices) = iter_size
    /\ iter_seen = DOMAIN router_devices
    /\ entities' = [m \in Macs |->
                       IF m \in new_tracked THEN entities[m] + 1 ELSE entities[m]]
    /\ new_tracked' = {}
    /\ setup_pc' = "done"
    /\ UNCHANGED <<subscribed, iter_size, iter_seen, tracked, notified>>
    /\ UNCHANGED evars

NextTracker ==
    \/ Next
    \/ SetupOther
    \/ SetupEntry
    \/ ReaderNext
    \/ ReaderRaise
    \/ ReaderEnd

SpecTracker == Init /\ [][NextTracker]_vars

----------------------------------------------------------------------------
(* Properties. *)

\* How often the current scan has sent signal sig.
NumSent(sig) == Cardinality({i \in DOMAIN dispatched : dispatched[i] = sig})

\* The loop body has just run for known_host, an entry with a MAC.
Applied ==
    /\ scan_pc = "loop"
    /\ index > 0
    /\ truthy(known_host.mac)

\* The step is the loop body running for known_host, an entry with a MAC.
Applying ==
    /\ scan_pc = "body"
    /\ scan_pc' = "loop"
    /\ truthy(known_host.mac)

\* C1: with the connection failed (success = False) every scan completes
\* normally: no exception leaves scan_devices, and __init__ completes.
C1_FailedScanCompletes ==
    (phase # "new" /\ ~success) => (scan_pc # "raised" /\ phase # "raised")

\* C2: while the connection is failed, no scan changes the registry and no
\* scan sends device-update or device-new.
C2_FailedScanNoEffect ==
    (phase # "new" /\ ~success) =>
        /\ DOMAIN devices = {}
        /\ devices = devices_before
        /\ dispatched = <<>>

C2_Witness == ~success /\ scan_pc = "raised"

\* C3: a scan of a healthy connection sends device-update exactly once, and
\* sends device-new if and only if its list held an entry with a MAC that was
\* not in the registry when the scan began.
C3_Notifications ==
    (success /\ scan_pc = "done") =>
        /\ NumSent(signal_device_update) = 1
        /\ NumSent(signal_device_new) \in {0, 1}
        /\ NumSent(signal_device_new) = 1
               <=> seen_macs \ DOMAIN devices_before # {}

C3_Witness ==
    /\ success
    /\ scan_pc = "done"
    /\ seen_macs # {}
    /\ seen_macs \subseteq DOMAIN devices_before
    /\ \E m \in seen_macs : devices[m].connected # devices_before[m].connected
    /\ dispatched = <<signal_device_update>>

\* C4: a scan sends its signals only after the loop has taken and folded every
\* entry of its list, and device-new, when sent, directly follows device-update.
C4_NotifyAfterFold ==
    dispatched # <<>> =>
        /\ scan_pc \in {"send_new", "done"}
        /\ index = count
        /\ \/ dispatched = <<signal_device_update>>
           \/ dispatched = <<signal_device_update, signal_device_new>>
        /\ seen_macs \subseteq DOMAIN devices

C4_Witness ==
    /\ scan_pc = "done"
    /\ count = MaxHosts
    /\ dispatched = <<signal_device_update, signal_device_new>>

\* C5 as claimed: every record has an IP address if and only if it is connected.
C5_IpIffConnected ==
    \A m \in DOMAIN devices :
        devices[m].ip_address # None <=> devices[m].connected

\* C5 as amended: every record that is not connected has no IP address, and
\* after an online observation the record is connected with exactly the IP the
\* entry carried, None included.
C5_IpOnlyWhenConnected ==
    /\ \A m \in DOMAIN devices :
           ~devices[m].connected => devices[m].ip_address = None
    /\ (Applied /\ known_host.status) =>
           /\ devices[known_host.mac].connected
           /\ devices[known_host.mac].ip_address = known_host.ip

C5_Witness ==
    /\ Applied
    /\ ~known_host.status
    /\ known_host.ip = IpA
    /\ known_host.mac \in DOMAIN devices_before
    /\ devices_before[known_host.mac].ip_address = IpA
    /\ devices[known_host.mac].ip_address = None

\* C6: once a record's name is non-empty, no step changes it.
C6_NameImmutable ==
    [][\A m \in DOMAIN devices :
           truthy(devices[m].name) =>
               (m \in DOMAIN devices' => devices'[m].name = devices[m].name)]_vars

C6_Witness ==
    /\ Applied
    /\ known_host.mac \in DOMAIN devices_before
    /\ devices_before[known_host.mac].name = NameA
    /\ known_host.name = NameB
    /\ devices[known_host.mac].name = NameA

\* C7 as claimed: an online observation leaves the record connected, with the
\* observed IP, and with last_activity equal to the scan's `now` argument.
C7_LastActivityIsScanNow ==
    (Applied /\ known_host.status) =>
        /\ devices[known_host.mac].connected
        /\ devices[known_host.mac].ip_address = known_host.ip
        /\ devices[known_host.mac].last_activity = scan_now

\* C7 as amended: an online observation leaves the record connected, with the
\* observed IP, and with last_activity equal to the clock reading update took.
C7_LastActivityIsUtcNow ==
    (Applied /\ known_host.status) =>
        /\ devices[known_host.mac].connected
        /\ devices[known_host.mac].ip_address = known_host.ip
        /\ devices[known_host.mac].last_activity = Utc(clock)

C7_Witness ==
    /\ Applied
    /\ known_host.status
    /\ scan_now # None
    /\ known_host.mac \in DOMAIN devices_before
    /\ devices_before[known_host.mac].last_activity \notin {None, Utc(clock)}
    /\ devices[known_host.mac].last_activity = Utc(clock)
    /\ Utc(clock) # scan_now

\* C8: an offline observation leaves the record not connected, without IP, and
\* with the last_activity it had before the call (None for a new record).
C8_OfflineKeepsLastActivity ==
    [][(Applying /\ ~known_host.status) =>
           LET m == known_host.mac
           IN  /\ m \in DOMAIN devices'
               /\ ~devices'[m].connected
               /\ devices'[m].ip_address = None
               /\ devices'[m].last_activity =
                      IF m \in DOMAIN devices THEN devices[m].last_activity
                                              ELSE None]_vars

C8_Witness ==
    /\ Applied
    /\ ~known_host.status
    /\ known_host.mac \in DOMAIN devices_before
    /\ devices_before[known_host.mac].connected
    /\ ~devices[known_host.mac].connected
    /\ devices[known_host.mac].ip_address = None
    /\ devices[known_host.mac].last_activity # None
    /\ devices[known_host.mac].last_activity # Utc(clock)

\* C9: no step removes a MAC from the registry.
C9_NeverEvicted == [][DOMAIN devices \subseteq DOMAIN devices']_vars

C9_Witness ==
    /\ scan_pc = "done"
    /\ ticks > 0
    /\ \E m \in DOMAIN devices_before : m \notin seen_macs /\ m \in DOMAIN devices

\* C10: every record is stored under its own MAC, in every state, so the MAC
\* of the record of a key never changes.
C10_KeyIsMac == \A m \in DOMAIN devices : devices[m].mac = m

C10_Witness ==
    /\ Applied
    /\ ticks > 0
    /\ known_host.mac \in DOMAIN devices_before
    /\ devices[known_host.mac] # devices_before[known_host.mac]
    /\ devices[known_host.mac].mac = known_host.mac

\* The step is the loop body running for known_host, an entry without MAC.
Skipping ==
    /\ scan_pc = "body"
    /\ scan_pc' = "loop"
    /\ ~truthy(known_host.mac)

\* C11: an entry whose MAC is missing or empty creates no record, changes no
\* record and does not set new_device; the loop goes on with the next entry
\* and the scan does not fail.
C11_SkipsEntryWithoutMac ==
    /\ [](\A m \in DOMAIN devices : truthy(m))
    /\ [](success => scan_pc # "raised")
    /\ [][(scan_pc = "body" /\ ~truthy(known_host.mac)) =>
              /\ Skipping
              /\ devices' = devices
              /\ new_device' = new_device
              /\ index' = index /\ count' = count]_vars

C11_Witness ==
    /\ scan_pc = "loop"
    /\ index > 0
    /\ index < count
    /\ known_host.mac = <<>>
    /\ DOMAIN devices # {}
    /\ devices = devices_before
    /\ ~new_device

\* C12: applying again the observation the loop body has just applied leaves
\* the record as it is, but for last_activity, which an online observation
\* sets to the time of the second call.
C12_Idempotent ==
    Applied =>
        LET m == known_host.mac
            later == Utc(clock + FetchTime)
            again == update(devices[m],
                            Device(known_host.mac, known_host.ip, known_host.name),
                            known_host.status, later)
        IN  /\ ~known_host.status => again = devices[m]
            /\ known_host.status =>
                   again = [devices[m] EXCEPT !.last_activity = later]

C12_Witness ==
    /\ Applied
    /\ known_host.status
    /\ known_host.mac \notin DOMAIN devices_before
    /\ ~truthy(known_host.name)
    /\ devices[known_host.mac].last_activity = Utc(clock)

\* An execution of scan_devices has been entered and has not returned.
ScanInFlight == scan_pc \in {"fetch", "loop", "body", "send_update", "send_new"}

C14_ReaderCollectionStable ==
    [][setup_pc = "iter" =>
           /\ DOMAIN router_devices' = DOMAIN router_devices
           /\ setup_pc' # "raised"]_vars

\* C15: with a healthy connection, when __init__ has registered the timer and
\* no tick has fired yet, the initial scan (now = None) has run to its end and
\* the registry holds a record for exactly the MACs its list yielded; the
\* timer is not registered while the initial scan runs.
C15_InitialScanInConstructor ==
    /\ (phase = "ready" /\ ticks = 0) =>
           /\ success
           /\ scan_pc = "done"
           /\ scan_now = None
           /\ DOMAIN devices = seen_macs
           /\ NumSent(signal_device_update) = 1
    /\ phase = "constructing" => (ticks = 0 /\ next_fire = 0)

C15_Witness ==
    /\ phase = "ready"
    /\ ticks = 0
    /\ DOMAIN devices = Macs

\* C16 as claimed: a signal sent by this router's scan invokes no handler
\* that was connected for another router.
C16_TopicsPerRouter == notified = {}

\* C17: a record first observed without a name is named by its MAC with every
\* ":" replaced by "_", that placeholder is never replaced, and every record
\* has a non-empty name in every state.
C17_PlaceholderPermanent ==
    /\ [](\A m \in DOMAIN devices : truthy(devices[m].name))
    /\ [][(Applying /\ known_host.mac \notin DOMAIN devices
                    /\ ~truthy(known_host.name)) =>
              devices'[known_host.mac].name = replace(known_host.mac, ":", "_")]_vars
    /\ [][\A m \in DOMAIN devices :
              devices[m].name = replace(m, ":", "_") =>
                  (m \in DOMAIN devices' /\ devices'[m].name = devices[m].name)]_vars

C17_Witness ==
    /\ Applied
    /\ known_host.mac \in DOMAIN devices_before
    /\ devices_before[known_host.mac].name = replace(known_host.mac, ":", "_")
    /\ known_host.name = NameA
    /\ devices[known_host.mac].name = replace(known_host.mac, ":", "_")
    /\ devices[known_host.mac].name # known_host.mac

\* C18 as claimed: after a repeated entry of one list is folded, the record's
\* connectivity and IP are those of that entry.
C18_LastEntryWins ==
    (Applied /\ known_host.mac \in dup_macs) =>
        /\ devices[known_host.mac].connected = known_host.status
        /\ devices[known_host.mac].ip_address = known_host.ip

\* C18 as amended: after a repeated entry of one list is folded there is one
\* record for its MAC, with the entry's connectivity and, if the entry is
\* online, the entry's IP, else no IP; folding the repeated entry adds no key
\* and does not set new_device, and the scan sends device-new at most once.
C18_DuplicatesFoldInOrder ==
    /\ []((Applied /\ known_host.mac \in dup_macs) =>
              /\ Cardinality({k \in DOMAIN devices :
                                  devices[k].mac = known_host.mac}) = 1
              /\ devices[known_host.mac].connected = known_host.status
              /\ devices[known_host.mac].ip_address =
                     IF known_host.status THEN known_host.ip ELSE None)
    /\ [](NumSent(signal_device_new) <= 1)
    /\ [][(Applying /\ known_host.mac \in dup_macs) =>
              /\ DOMAIN devices' = DOMAIN devices
              /\ new_device' = new_device]_vars

C18_Witness ==
    /\ Applied
    /\ known_host.mac \in dup_macs
    /\ known_host.mac \notin DOMAIN devices_before
    /\ ~known_host.status
    /\ devices[known_host.mac].last_activity = Utc(clock)
    /\ devices[known_host.mac].ip_address = None
    /\ new_device

\* C19: while a scan runs and after it, every record whose MAC the scan's
\* list has not yielded is as it was when the scan was entered.
C19_OnlySnapshotMacsChange ==
    \A m \in DOMAIN devices_before \ seen_macs :
        m \in DOMAIN devices /\ devices[m] = devices_before[m]

C19_Witness ==
    /\ scan_pc = "done"
    /\ ticks > 0
    /\ seen_macs # {}
    /\ \E m \in DOMAIN devices_before \ seen_macs :
           devices[m].connected /\ devices[m].ip_address = IpA

\* add_entities returns on this step: the loop begun by async_setup_entry is
\* exhausted, or device-new invokes update_router.
AddEntitiesReturns ==
    \/ setup_pc = "iter" /\ setup_pc' = "done"
    \/ /\ scan_pc = "send_new" /\ scan_pc' = "done"
       /\ [router |-> "this", topic |-> signal_device_new,
           handler |-> "update_router"] \in subscribed

\* C20 as claimed: no MAC ever has a second entity, and when add_entities has
\* returned and none is running, the tracked MACs are the registry's keys and
\* each of them has one entity.
C20_EveryMacOneEntity ==
    /\ [](\A m \in Macs : entities[m] <= 1)
    /\ [][(AddEntitiesReturns /\ setup_pc' # "iter") =>
              /\ tracked' = DOMAIN devices'
              /\ \A m \in DOMAIN devices' : entities'[m] = 1]_vars

====
